---- MODULE Spec2Model ----
(***************************************************************************)
(* State-machine model of the two React widgets of the front end:          *)
(*   ChatInterface.jsx      (the Conversation Widget, the variant with     *)
(*                           file attachment, lines 155-363)               *)
(*   RequirementsPanel.jsx  (the Document Generation Widget)               *)
(* JavaScript values are tagged records, so that null, undefined, strings  *)
(* and objects can be told apart and tested for truthiness as the code     *)
(* does.  A string is the sequence of its characters.                      *)
(***************************************************************************)
EXTENDS Integers, Sequences, FiniteSets, TLC

(***************************************************************************)
(* Bounds of the model.                                                    *)
(***************************************************************************)
MaxLen == 1
MaxSubmits == 2
MaxClock == 3

(***************************************************************************)
(* JavaScript values.                                                      *)
(***************************************************************************)
Null == [t |-> "null"]
Undefined == [t |-> "undefined"]
Str(s) == [t |-> "string", v |-> s]
Chars == {" ", "a"}
Texts == UNION {[1..k -> Chars] : k \in 0..MaxLen}

\* JavaScript truthiness of the values the widgets test with ! and ?:
Truthy(v) ==
    /\ v.t \notin {"null", "undefined"}
    /\ ~(v.t = "string" /\ v.v = <<>>)
    /\ ~(v.t = "boolean" /\ v.v = FALSE)

\* String.prototype.trim on a character sequence
RECURSIVE TrimStart(_)
TrimStart(s) ==
    IF s # <<>> /\ Head(s) = " " THEN TrimStart(Tail(s)) ELSE s

RECURSIVE TrimEnd(_)
TrimEnd(s) ==
    IF s # <<>> /\ s[Len(s)] = " " THEN TrimEnd(SubSeq(s, 1, Len(s) - 1)) ELSE s

Trim(s) == TrimEnd(TrimStart(s))

(***************************************************************************)
(* Conversation Widget: constants of ChatInterface.jsx                     *)
(***************************************************************************)
WelcomeText == Str(<<"Hello! I am your Business Analytics Agent. How can I assist you with analyzing your business processes today?">>)
FallbackText == Str(<<"I apologize, but I'm having trouble connecting to the analytics engine. Please ensure the backend server is running.">>)
SeedId == 1
SeedMessage == [id |-> SeedId, type |-> "agent", content |-> WelcomeText]

\* Date.now() is far above the seed id; the modelled clock starts above it.
ClockStart == 2

\* The File objects the user can pick in the file dialog
File(n, b) == [t |-> "file", name |-> Str(n), body |-> b]
Files == {File(<<"a.xlsx">>, 1), File(<<"b.xlsx">>, 2)}

\* What POST /chat can come back with.  fetch() rejects on a transport
\* error; otherwise it resolves with a status and a body, and the body is
\* JSON or not.
JsonNull == [t |-> "json", data |-> Null]
Json(d) == [t |-> "json", data |-> d]
Garbage == [t |-> "garbage"]
ChatData == {[t |-> "object", response |-> Str(<<"r1">>), image |-> Undefined],
             [t |-> "object", response |-> Str(<<"r2">>), image |-> Str(<<"png">>)]}
FetchRejected == [fetch |-> "rejected"]
Fulfilled(ok, body) == [fetch |-> "fulfilled", ok |-> ok, body |-> body]
ChatResponses ==
    {FetchRejected, Fulfilled(FALSE, Garbage), Fulfilled(TRUE, Garbage),
     Fulfilled(TRUE, JsonNull)}
    \cup {Fulfilled(TRUE, Json(d)) : d \in ChatData}

VARIABLES
    messages,       \* useState: the transcript
    inputValue,     \* useState: the pending input text (character sequence)
    selectedFile,   \* useState: the pending attached File or null
    isLoading,      \* useState: the in-flight flag
    fileInput,      \* fileInputRef.current.value: the file the control holds
    calls,          \* the accepted handleSendMessage invocations, in order:
                    \* the request each issued, where it stands, its response
    now,            \* the reading of Date.now()
    lastEvent,      \* the handler that ran last, and how it ended
    projectName,    \* RequirementsPanel useState (character sequence)
    isGenerating,   \* RequirementsPanel useState: the in-flight flag
    requirements,   \* RequirementsPanel useState: the requirements payload
    documentContent,\* RequirementsPanel useState: the document text
    error,          \* RequirementsPanel useState: the error notice
    activeTab,      \* RequirementsPanel useState
    artifacts,      \* RequirementsPanel useState: the three artifact slots
    panelCalls,     \* the network requests the panel issued, in order:
                    \* endpoint, body, and where each stands
    lastResponse,   \* what the request that completed last came back with
    downloads       \* the files downloadDocument handed to the browser

chatVars == <<messages, inputValue, selectedFile, isLoading, fileInput, calls>>
panelVars == <<projectName, isGenerating, requirements, documentContent, error,
               activeTab, artifacts, panelCalls, lastResponse, downloads>>
vars == <<messages, inputValue, selectedFile, isLoading, fileInput, calls,
          now, lastEvent, projectName, isGenerating, requirements,
          documentContent, error, activeTab, artifacts, panelCalls,
          lastResponse, downloads>>

Awaiting == {k \in 1..Len(calls) : calls[k].state = "awaiting"}

ChatInit ==
    /\ messages = <<SeedMessage>>
    /\ inputValue = <<>>
    /\ selectedFile = Null
    /\ isLoading = FALSE
    /\ fileInput = Null
    /\ calls = <<>>

\* useState initial values of RequirementsPanel (lines 6-16)
PanelInit ==
    /\ projectName = <<>>
    /\ isGenerating = FALSE
    /\ requirements = Null
    /\ documentContent = Null
    /\ error = Null
    /\ activeTab = "requirements"
    /\ artifacts = [useCases |-> Null, userStories |-> Null, processDiagram |-> Null]
    /\ panelCalls = <<>>
    /\ lastResponse = Undefined
    /\ downloads = <<>>

Init ==
    /\ ChatInit
    /\ PanelInit
    /\ now = ClockStart
    /\ lastEvent = "mount"

\* Time passes: Date.now() never decreases.
Tick ==
    /\ now < MaxClock
    /\ now' = now + 1
    /\ lastEvent' = "other"
    /\ UNCHANGED <<chatVars, panelVars>>

\* onChange of the text input (line 351)
setInputValue(v) ==
    /\ inputValue' = v
    /\ lastEvent' = "other"
    /\ UNCHANGED <<messages, selectedFile, isLoading, fileInput, calls, now>>

\* handleFileChange (lines 181-185).  picked is e.target.files[0], or
\* Undefined when the dialog left the control empty.  The browser raises
\* the change event only when the control's selection changes.
handleFileChange(picked) ==
    /\ fileInput' = (IF picked = Undefined THEN Null ELSE picked)
    /\ fileInput' # fileInput
    /\ selectedFile' = (IF Truthy(picked) THEN picked ELSE selectedFile)
    /\ lastEvent' = "other"
    /\ UNCHANGED <<messages, inputValue, isLoading, calls, now>>

\* onClick of the remove-file button (lines 336-339), rendered only while a
\* file is selected (line 331)
removeFile ==
    /\ Truthy(selectedFile)
    /\ selectedFile' = Null
    /\ fileInput' = Null
    /\ lastEvent' = "other"
    /\ UNCHANGED <<messages, inputValue, isLoading, calls, now>>

\* The guard without trim(): a blank text would be sent
SendRejectedNoTrim(text, file) == ~Truthy(Str(text)) /\ ~Truthy(file)

\* The guard of handleSendMessage (line 189): TRUE when the handler returns
\* at once.
SendRejected(text, file) == ~Truthy(Str(Trim(text))) /\ ~Truthy(file)

\* userMessage holding the trimmed text
UserMessageTrimmed(text, file, clock) ==
    [id |-> clock, type |-> "user", content |-> Str(Trim(text)),
     fileName |-> IF Truthy(file) THEN file.name ELSE Null]

\* userMessage (lines 191-196)
UserMessage(text, file, clock) ==
    [id |-> clock, type |-> "user", content |-> Str(text),
     fileName |-> IF Truthy(file) THEN file.name ELSE Null]

\* formData built from the selectedFile state setSelectedFile(null) has
\* just cleared: the file is never sent
BuildFormDataFromClearedState(userMessage, file) ==
    <<[key |-> "message", value |-> userMessage.content]>>

\* formData (lines 204-208): built from userMessage and from the
\* selectedFile the handler closed over, not from the state just cleared
BuildFormData(userMessage, file) ==
    <<[key |-> "message", value |-> userMessage.content]>>
    \o (IF Truthy(file) THEN <<[key |-> "file", value |-> file]>> ELSE <<>>)

\* setMessages([m]): the update that forgets the previous transcript
ReplaceMessages(prev, m) == <<m>>

\* The functional update prev => [...prev, m] of setMessages (lines 198,
\* 228, 236)
AppendMessage(prev, m) == Append(prev, m)

\* handleSendMessage up to its await (lines 187-213)
handleSendMessage ==
    IF SendRejected(inputValue, selectedFile)
    THEN /\ lastEvent' = "submitRejected"
         /\ UNCHANGED <<chatVars, now>>
    ELSE /\ Len(calls) < MaxSubmits
         /\ LET userMessage == UserMessage(inputValue, selectedFile, now)
            IN /\ messages' = AppendMessage(messages, userMessage)
               /\ calls' = Append(calls,
                     [formData |-> BuildFormData(userMessage, selectedFile),
                      state |-> "awaiting",
                      response |-> Undefined,
                      userAt |-> Len(messages) + 1,
                      agentAt |-> 0])
         /\ inputValue' = <<>>
         /\ selectedFile' = Null
         /\ isLoading' = TRUE
         /\ lastEvent' = "submitAccepted"
         /\ UNCHANGED <<fileInput, now>>

\* The try block reading a field the response does not have
TryBlockWrongField(resp, clock) ==
    IF resp.fetch = "rejected" THEN [threw |-> TRUE]
    ELSE IF ~resp.ok THEN [threw |-> TRUE]
    ELSE IF resp.body.t # "json" THEN [threw |-> TRUE]
    ELSE IF resp.body.data.t # "object" THEN [threw |-> TRUE]
    ELSE [threw |-> FALSE,
          message |-> [id |-> clock + 1, type |-> "agent",
                       content |-> Undefined,
                       image |-> resp.body.data.image]]

\* The try block after the await (lines 215-228): it either throws or
\* yields the agentMessage.  Reading a property of null throws as well.
TryBlock(resp, clock) ==
    IF resp.fetch = "rejected" THEN [threw |-> TRUE]
    ELSE IF ~resp.ok THEN [threw |-> TRUE]
    ELSE IF resp.body.t # "json" THEN [threw |-> TRUE]
    ELSE IF resp.body.data.t # "object" THEN [threw |-> TRUE]
    ELSE [threw |-> FALSE,
          message |-> [id |-> clock + 1, type |-> "agent",
                       content |-> resp.body.data.response,
                       image |-> resp.body.data.image]]

\* errorMessage of the catch block (lines 229-236)
ErrorMessage(clock) ==
    [id |-> clock + 1, type |-> "agent", content |-> FallbackText]

\* The catch block showing the message of the error it caught
AfterAwaitSurfacesError(resp, clock) ==
    LET r == TryBlock(resp, clock)
    IN [append |-> IF r.threw
                   THEN <<[id |-> clock + 1, type |-> "agent",
                           content |-> IF resp.fetch = "rejected"
                                       THEN Str(<<"Failed to fetch">>)
                                       ELSE FallbackText]>>
                   ELSE <<r.message>>,
        isLoading |-> FALSE,
        fileInput |-> Null,
        state |-> "resolved"]

\* setIsLoading(false) at the end of the try block instead of in finally
AfterAwaitNoFinally(resp, clock) ==
    LET r == TryBlock(resp, clock)
    IN [append |-> IF r.threw THEN <<ErrorMessage(clock)>> ELSE <<r.message>>,
        isLoading |-> r.threw,
        fileInput |-> Null,
        state |-> "resolved"]

\* try / catch / finally after the await (lines 215-242): the messages the
\* handler appends, the in-flight flag and the file control it leaves, and
\* how its promise settles
AfterAwait(resp, clock) ==
    LET r == TryBlock(resp, clock)
    IN [append |-> IF r.threw THEN <<ErrorMessage(clock)>> ELSE <<r.message>>,
        isLoading |-> FALSE,
        fileInput |-> Null,
        state |-> "resolved"]

\* finally calling setSelectedFile(null) as well
FileAfterFinallyCleared(file) == Null

\* The finally block (lines 237-242) resets the file control only: the
\* selectedFile state is not assigned
FileAfterFinally(file) == file

RECURSIVE AppendAll(_, _)
AppendAll(prev, ms) ==
    IF ms = <<>> THEN prev ELSE AppendAll(AppendMessage(prev, Head(ms)), Tail(ms))

\* handleSendMessage from the await on (lines 210-242): the request of call
\* k completes with resp
CompleteChat(k, resp) ==
    /\ k \in Awaiting
    /\ LET s == AfterAwait(resp, now)
       IN /\ messages' = AppendAll(messages, s.append)
          /\ calls' = [calls EXCEPT ![k].state = s.state,
                                    ![k].response = resp,
                                    ![k].agentAt = Len(messages) + 1]
          /\ isLoading' = s.isLoading
          /\ fileInput' = s.fileInput
    /\ selectedFile' = FileAfterFinally(selectedFile)
    /\ lastEvent' = "complete"
    /\ UNCHANGED <<inputValue, now>>

\* The send button not disabled while loading
SendDisabledIgnoresLoading ==
    ~Truthy(Str(Trim(inputValue))) /\ ~Truthy(selectedFile)

\* disabled attribute of the send button (line 354)
SendDisabled ==
    isLoading \/ (~Truthy(Str(Trim(inputValue))) /\ ~Truthy(selectedFile))

\* The events the rendered form lets through: the text input is disabled
\* while loading (line 352) and a form whose submit button is disabled is
\* not submitted.
TypeText ==
    /\ \E v \in Texts : ~isLoading /\ setInputValue(v)
    /\ UNCHANGED panelVars
PickFile ==
    /\ \E f \in Files \cup {Undefined} : handleFileChange(f)
    /\ UNCHANGED panelVars
ClickRemoveFile == removeFile /\ UNCHANGED panelVars
SubmitForm == ~SendDisabled /\ handleSendMessage /\ UNCHANGED panelVars
ChatResponse ==
    /\ \E k \in 1..Len(calls), resp \in ChatResponses : CompleteChat(k, resp)
    /\ UNCHANGED panelVars

Next ==
    \/ Tick
    \/ TypeText
    \/ PickFile
    \/ ClickRemoveFile
    \/ SubmitForm
    \/ ChatResponse

Spec == Init /\ [][Next]_vars

\* Every issued request is answered or fails in the end.
LiveSpec == Spec /\ WF_vars(ChatResponse)

\* The handlers themselves, run whatever the rendered controls allow (the
\* disabled attributes are advisory): the same widget driven by dispatched
\* events.
TypeAnyTime == (\E v \in Texts : setInputValue(v)) /\ UNCHANGED panelVars
Submit == handleSendMessage /\ UNCHANGED panelVars

HandlerNext ==
    \/ Tick
    \/ TypeAnyTime
    \/ PickFile
    \/ ClickRemoveFile
    \/ Submit
    \/ ChatResponse

HandlerSpec == Init /\ [][HandlerNext]_vars

(***************************************************************************)
(* Document Generation Widget: RequirementsPanel.jsx                       *)
(***************************************************************************)
MaxPanelCalls == 3
MaxDownloads == 1

True == [t |-> "boolean", v |-> TRUE]
False == [t |-> "boolean", v |-> FALSE]

\* a || b
Or(a, b) == IF Truthy(a) THEN a ELSE b

\* The sessionId prop
SessionId == Str(<<"session-1">>)

\* The notices the panel sets (lines 20, 46, 49, 58, 88, 114, 149, 153),
\* transliterated
ErrEnterProjectName == Str(<<"Pozhaluysta, vvedite nazvanie proekta">>)
ErrGenerate == Str(<<"Oshibka generatsii trebovaniy">>)
ErrConnection == Str(<<"Oshibka podklyucheniya k serveru">>)
ErrNeedRequirements == Str(<<"Snachala sgeneriruyte trebovaniya">>)
ErrArtifact == Str(<<"Oshibka generatsii artefakta">>)
ErrNeedDocument == Str(<<"Snachala sgeneriruyte dokument">>)
ErrPublish == Str(<<"Oshibka publikatsii v Confluence">>)

\* Response bodies of the three endpoints, as the interface describes
\* them: a body with success carries the payload of its endpoint, a body
\* without success may carry an error text.  A text may be empty and a
\* list may be empty.
NoData ==
    [t |-> "object", success |-> Undefined, error |-> Undefined,
     requirements |-> Undefined, document |-> Undefined,
     artifacts |-> Undefined, diagram |-> Undefined, page_url |-> Undefined]
Payload(n) == [t |-> "object", id |-> n]
List(q) == [t |-> "array", v |-> q]
FailureData ==
    {[NoData EXCEPT !.success = False, !.error = Str(<<"backend error">>)],
     [NoData EXCEPT !.success = False]}
GenerateData ==
    {[NoData EXCEPT !.success = True, !.requirements = Payload(1),
                    !.document = Str(<<"# Req">>)],
     [NoData EXCEPT !.success = True, !.requirements = Payload(2),
                    !.document = Str(<<>>)]}
ArtifactData(artifactType) ==
    IF artifactType = "process_diagram"
    THEN {[NoData EXCEPT !.success = True, !.diagram = Str(<<"graph TD">>)],
          [NoData EXCEPT !.success = True, !.diagram = Str(<<>>)]}
    ELSE {[NoData EXCEPT !.success = True, !.artifacts = List(<<Payload(3)>>)],
          [NoData EXCEPT !.success = True, !.artifacts = List(<<>>)]}
PublishData ==
    {[NoData EXCEPT !.success = True, !.page_url = Str(<<"http://wiki/page">>)]}

\* The messages of the errors fetch() and response.json() reject with
FetchFailed(m) == [fetch |-> "rejected", message |-> m]
PanelFailures ==
    {FetchFailed(<<"Failed to fetch">>),
     FetchFailed(<<"Load failed">>),
     [fetch |-> "fulfilled", ok |-> FALSE, body |-> Garbage,
      message |-> <<"Unexpected token <">>]}
PanelResponses(endpoint, artifactType) ==
    PanelFailures
    \cup {Fulfilled(TRUE, Json(d)) : d \in FailureData}
    \cup {Fulfilled(TRUE, Json(d)) :
            d \in CASE endpoint = "generate-requirements" -> GenerateData
                    [] endpoint = "generate-artifacts" -> ArtifactData(artifactType)
                    [] OTHER -> PublishData}

\* The names typed into the project name input
ProjectNames == {<<>>, <<" ">>, <<"a">>, <<"b">>}

ArtifactTypes == {"use_cases", "user_stories", "process_diagram"}
Tabs == {"requirements", "usecases", "stories", "diagram"}

PanelAwaiting == {k \in 1..Len(panelCalls) : panelCalls[k].state = "awaiting"}

\* await fetch(...); await response.json() (lines 28-40, 66-77, 127-138):
\* the parsed body, or the error thrown
AwaitJson(resp) ==
    IF resp.fetch = "rejected" THEN [threw |-> TRUE, message |-> resp.message]
    ELSE IF resp.body.t # "json" THEN [threw |-> TRUE, message |-> resp.message]
    ELSE [threw |-> FALSE, data |-> resp.body.data]

\* A request goes out: what the handler closed over is in the body
IssueCall(endpoint, body) ==
    /\ Len(panelCalls) < MaxPanelCalls
    /\ panelCalls' = Append(panelCalls,
          [endpoint |-> endpoint, body |-> body, state |-> "awaiting"])
    /\ UNCHANGED lastResponse

\* The awaited request of call k comes back with resp and the handler runs
\* to its end
SettleCall(k, resp) ==
    /\ panelCalls' = [panelCalls EXCEPT ![k].state =
            IF AwaitJson(resp).threw THEN "failed"
            ELSE IF Truthy(AwaitJson(resp).data.success) THEN "succeeded"
            ELSE "failed"]
    /\ lastResponse' = resp

\* onChange of the project name input (line 183)
setProjectName(v) ==
    /\ projectName' = v
    /\ lastEvent' = "other"
    /\ UNCHANGED <<isGenerating, requirements, documentContent, error,
                   activeTab, artifacts, panelCalls, lastResponse, downloads>>

\* onClick of a tab (lines 225, 231, 237, 243)
setActiveTab(tab) ==
    /\ activeTab' = tab
    /\ lastEvent' = "other"
    /\ UNCHANGED <<projectName, isGenerating, requirements, documentContent,
                   error, artifacts, panelCalls, lastResponse, downloads>>

\* The previous notice left standing when a request starts
NoticeAtStartKept(prev) == prev

\* setError(null) before each request (lines 25, 63, 119)
NoticeAtStart(prev) == Null

\* The guard tested without trim()
GenerateRejectedNoTrim(name) == ~Truthy(Str(name))

\* The guard of generateRequirements (line 19): TRUE when it returns at once
GenerateRejected(name) == ~Truthy(Str(Trim(name)))

\* generateRequirements up to its await (lines 18-38)
generateRequirements ==
    IF GenerateRejected(projectName)
    THEN /\ error' = ErrEnterProjectName
         /\ lastEvent' = "generateRejected"
         /\ UNCHANGED <<projectName, isGenerating, requirements, documentContent,
                        activeTab, artifacts, panelCalls, lastResponse, downloads>>
    ELSE /\ IssueCall("generate-requirements",
                      [session_id |-> SessionId,
                       project_name |-> Str(projectName),
                       additional_context |-> Null])
         /\ isGenerating' = TRUE
         /\ error' = NoticeAtStart(error)
         /\ lastEvent' = "generateIssued"
         /\ UNCHANGED <<projectName, requirements, documentContent, activeTab,
                        artifacts, downloads>>

\* The notice without its fallback
GenerateErrorNoFallback(data) == data.error

\* data.error || ... (line 46)
GenerateErrorNotice(data) == Or(data.error, ErrGenerate)

\* generateRequirements from its await on (lines 40-53)
CompleteGenerate(k, resp) ==
    /\ k \in PanelAwaiting
    /\ panelCalls[k].endpoint = "generate-requirements"
    /\ SettleCall(k, resp)
    /\ LET r == AwaitJson(resp)
       IN IF r.threw
          THEN /\ error' = ErrConnection
               /\ UNCHANGED <<requirements, documentContent>>
          ELSE IF Truthy(r.data.success)
          THEN /\ requirements' = r.data.requirements
               /\ documentContent' = r.data.document
               /\ UNCHANGED error
          ELSE /\ error' = GenerateErrorNotice(r.data)
               /\ UNCHANGED <<requirements, documentContent>>
    /\ isGenerating' = FALSE
    /\ lastEvent' = "generateDone"
    /\ UNCHANGED <<projectName, activeTab, artifacts, downloads>>

\* The guard testing for undefined only: the initial null passes
ArtifactRejectedUndefinedOnly(req) == req = Undefined

\* The guard of generateArtifact (line 57)
ArtifactRejected(req) == ~Truthy(req)

\* What lastEvent records of a generateArtifact that returned at once
RejectedArtifactEvent(artifactType) ==
    CASE artifactType = "use_cases" -> "artifactRejected:use_cases"
      [] artifactType = "user_stories" -> "artifactRejected:user_stories"
      [] OTHER -> "artifactRejected:process_diagram"

\* generateArtifact up to its await (lines 56-75)
generateArtifact(artifactType) ==
    IF ArtifactRejected(requirements)
    THEN /\ error' = ErrNeedRequirements
         /\ lastEvent' = RejectedArtifactEvent(artifactType)
         /\ UNCHANGED <<projectName, isGenerating, requirements, documentContent,
                        activeTab, artifacts, panelCalls, lastResponse, downloads>>
    ELSE /\ IssueCall("generate-artifacts",
                      [requirements |-> requirements,
                       artifact_type |-> artifactType])
         /\ isGenerating' = TRUE
         /\ error' = NoticeAtStart(error)
         /\ lastEvent' = "artifactIssued"
         /\ UNCHANGED <<projectName, requirements, documentContent, activeTab,
                        artifacts, downloads>>

\* setArtifacts without the spread of prev: the other slots are lost
StoreArtifactNoSpread(prev, artifactType, data) ==
    LET empty == [useCases |-> Undefined, userStories |-> Undefined,
                  processDiagram |-> Undefined]
    IN IF artifactType = "use_cases" THEN [empty EXCEPT !.useCases = data.artifacts]
       ELSE IF artifactType = "user_stories" THEN [empty EXCEPT !.userStories = data.artifacts]
       ELSE IF artifactType = "process_diagram" THEN [empty EXCEPT !.processDiagram = data.diagram]
       ELSE prev

\* The functional updates of setArtifacts (lines 80-86)
StoreArtifact(prev, artifactType, data) ==
    IF artifactType = "use_cases" THEN [prev EXCEPT !.useCases = data.artifacts]
    ELSE IF artifactType = "user_stories" THEN [prev EXCEPT !.userStories = data.artifacts]
    ELSE IF artifactType = "process_diagram" THEN [prev EXCEPT !.processDiagram = data.diagram]
    ELSE prev

\* The notice without its fallback
ArtifactErrorNoFallback(data) == data.error

\* data.error || ... (line 88)
ArtifactErrorNotice(data) == Or(data.error, ErrArtifact)

\* generateArtifact from its await on (lines 77-95)
CompleteArtifact(k, resp) ==
    /\ k \in PanelAwaiting
    /\ panelCalls[k].endpoint = "generate-artifacts"
    /\ SettleCall(k, resp)
    /\ LET r == AwaitJson(resp)
       IN IF r.threw
          THEN /\ error' = ErrConnection
               /\ UNCHANGED artifacts
          ELSE IF Truthy(r.data.success)
          THEN /\ artifacts' = StoreArtifact(artifacts,
                                   panelCalls[k].body.artifact_type, r.data)
               /\ UNCHANGED error
          ELSE /\ error' = ArtifactErrorNotice(r.data)
               /\ UNCHANGED artifacts
    /\ isGenerating' = FALSE
    /\ lastEvent' = "artifactDone"
    /\ UNCHANGED <<projectName, requirements, documentContent, activeTab,
                   downloads>>

\* link.download (line 105)
DownloadName(name) == Or(Str(name), Str(<<"requirements">>)).v \o <<".md">>

\* downloadDocument without its guard
DownloadNeverRejected(doc) == FALSE

\* The guard of downloadDocument (line 99)
DownloadRejected(doc) == ~Truthy(doc)

\* downloadDocument (lines 98-110)
downloadDocument ==
    IF DownloadRejected(documentContent)
    THEN /\ lastEvent' = "downloadNothing"
         /\ UNCHANGED panelVars
    ELSE /\ Len(downloads) < MaxDownloads
         /\ downloads' = Append(downloads,
               [name |-> Str(DownloadName(projectName)),
                type |-> "text/markdown",
                content |-> documentContent])
         /\ lastEvent' = "downloaded"
         /\ UNCHANGED <<projectName, isGenerating, requirements, documentContent,
                        error, activeTab, artifacts, panelCalls, lastResponse>>

\* The guard testing for undefined only: the initial null passes
PublishRejectedUndefinedOnly(doc) == doc = Undefined

\* publishToConfluence without its guard
PublishNeverRejected(doc) == FALSE

\* The guard of publishToConfluence (line 113)
PublishRejected(doc) == ~Truthy(doc)

\* The body with the document left out of it
PublishBodyNameOnly(name, doc) ==
    [project_name |-> Str(name), document |-> Undefined]

\* The JSON body of the publish request (lines 132-135)
PublishBody(name, doc) == [project_name |-> Str(name), document |-> doc]

\* publishToConfluence up to its await (lines 112-136)
publishToConfluence ==
    IF PublishRejected(documentContent)
    THEN /\ error' = ErrNeedDocument
         /\ lastEvent' = "publishRejected"
         /\ UNCHANGED <<projectName, isGenerating, requirements, documentContent,
                        activeTab, artifacts, panelCalls, lastResponse, downloads>>
    ELSE /\ IssueCall("publish-to-confluence",
                      PublishBody(projectName, documentContent))
         /\ isGenerating' = TRUE
         /\ error' = NoticeAtStart(error)
         /\ lastEvent' = "publishIssued"
         /\ UNCHANGED <<projectName, requirements, documentContent, activeTab,
                        artifacts, downloads>>

\* The catch block setting the fixed connectivity notice
PublishCatchNoticeFixed(message) == ErrConnection

\* The notice of publishToConfluence's catch block (line 153): the
\* connectivity text followed by err.message
PublishCatchNotice(message) ==
    Str(<<"Oshibka podklyucheniya k serveru: ">> \o message)

\* publishToConfluence from its await on (lines 138-156); what the user
\* answers to window.confirm changes no state of the panel
CompletePublish(k, resp) ==
    /\ k \in PanelAwaiting
    /\ panelCalls[k].endpoint = "publish-to-confluence"
    /\ SettleCall(k, resp)
    /\ LET r == AwaitJson(resp)
       IN IF r.threw
          THEN error' = PublishCatchNotice(r.message)
          ELSE IF Truthy(r.data.success)
          THEN UNCHANGED error
          ELSE error' = Or(r.data.error, ErrPublish)
    /\ isGenerating' = FALSE
    /\ lastEvent' = "publishDone"
    /\ UNCHANGED <<projectName, requirements, documentContent, activeTab,
                   artifacts, downloads>>

\* The slot a tab shows (lines 258-335)
TabSlot(tab) ==
    CASE tab = "usecases" -> artifacts.useCases
      [] tab = "stories" -> artifacts.userStories
      [] tab = "diagram" -> artifacts.processDiagram
      [] OTHER -> Undefined
TabType(tab) ==
    CASE tab = "usecases" -> "use_cases"
      [] tab = "stories" -> "user_stories"
      [] OTHER -> "process_diagram"

\* The events the rendered panel lets through.  The form is rendered while
\* requirements is falsy (line 170), the results view otherwise.
\* The form rendered whatever requirements holds
FormAlwaysShown == TRUE

\* The condition of the form's branch (line 170)
FormShown == ~Truthy(requirements)

\* The name input left enabled while generating
NameInputNeverDisabled == FALSE

\* disabled attribute of the project name input (line 186)
NameInputDisabled == isGenerating

\* The publish button left enabled while generating
PublishNeverDisabled == FALSE

\* disabled attribute of the publish button (line 350)
PublishDisabled == isGenerating

TypeProjectName ==
    /\ FormShown /\ ~NameInputDisabled
    /\ \E v \in ProjectNames : setProjectName(v)
    /\ UNCHANGED <<chatVars, now>>
ClickGenerate ==
    /\ FormShown
    /\ ~(isGenerating \/ ~Truthy(Str(Trim(projectName))))
    /\ generateRequirements
    /\ UNCHANGED <<chatVars, now>>
ClickTab ==
    /\ Truthy(requirements)
    /\ \E tab \in Tabs : tab # activeTab /\ setActiveTab(tab)
    /\ UNCHANGED <<chatVars, now>>
ClickGenerateArtifact ==
    /\ Truthy(requirements)
    /\ activeTab # "requirements"
    /\ ~Truthy(TabSlot(activeTab))
    /\ ~isGenerating
    /\ generateArtifact(TabType(activeTab))
    /\ UNCHANGED <<chatVars, now>>
ClickDownload ==
    /\ Truthy(requirements)
    /\ downloadDocument
    /\ UNCHANGED <<chatVars, now>>
ClickPublish ==
    /\ Truthy(requirements)
    /\ ~PublishDisabled
    /\ publishToConfluence
    /\ UNCHANGED <<chatVars, now>>
PanelResponse ==
    /\ \E k \in 1..Len(panelCalls) :
         LET c == panelCalls[k]
         IN \/ \E resp \in PanelResponses("generate-requirements", "") :
                 CompleteGenerate(k, resp)
            \/ /\ c.endpoint = "generate-artifacts"
               /\ \E resp \in PanelResponses(c.endpoint, c.body.artifact_type) :
                     CompleteArtifact(k, resp)
            \/ \E resp \in PanelResponses("publish-to-confluence", "") :
                 CompletePublish(k, resp)
    /\ UNCHANGED <<chatVars, now>>

PanelNext ==
    \/ TypeProjectName
    \/ ClickGenerate
    \/ ClickTab
    \/ ClickGenerateArtifact
    \/ ClickDownload
    \/ ClickPublish
    \/ PanelResponse

PanelSpec == Init /\ [][PanelNext]_vars

\* The panel's handlers themselves, run whatever the rendered controls
\* allow: the same widget driven by dispatched events.  No handler reads
\* activeTab, so the tabs are left where they are.
CallSetProjectName ==
    /\ \E v \in Texts : setProjectName(v)
    /\ UNCHANGED <<chatVars, now>>
CallGenerateRequirements == generateRequirements /\ UNCHANGED <<chatVars, now>>
CallGenerateArtifact ==
    /\ \E artifactType \in ArtifactTypes : generateArtifact(artifactType)
    /\ UNCHANGED <<chatVars, now>>
CallDownloadDocument == downloadDocument /\ UNCHANGED <<chatVars, now>>
CallPublishToConfluence == publishToConfluence /\ UNCHANGED <<chatVars, now>>

PanelHandlerNext ==
    \/ CallSetProjectName
    \/ CallGenerateRequirements
    \/ CallGenerateArtifact
    \/ CallDownloadDocument
    \/ CallPublishToConfluence
    \/ PanelResponse

PanelHandlerSpec == Init /\ [][PanelHandlerNext]_vars

(***************************************************************************)
(* Conversation Widget: properties                                         *)
(***************************************************************************)
Last(q) == q[Len(q)]
UserCount == Cardinality({i \in 1..Len(messages) : messages[i].type = "user"})
AgentCount == Cardinality({i \in 1..Len(messages) : messages[i].type = "agent"})

\* A chat request succeeded: fetch resolved, the status is a success status
\* and the body is a JSON object.
ChatSucceeded(resp) ==
    /\ resp.fetch = "fulfilled"
    /\ resp.ok
    /\ resp.body.t = "json"
    /\ resp.body.data.t = "object"

AllAnswered == Awaiting = {}
AllSucceeded == \A k \in 1..Len(calls) : ChatSucceeded(calls[k].response)

\* A step in which handleSendMessage accepted a submission
AcceptedStep == Len(calls') = Len(calls) + 1
\* A step in which the request of call k completed
CompletedStep(k) == k \in Awaiting /\ calls'[k].state # "awaiting"

\* C1: after N accepted submissions whose requests all succeeded, the
\* transcript is the seed message followed by N (user message, agent
\* message) pairs, 1 + 2N messages in all, the k-th pair holding the text
\* of the k-th submission and the text and image of the k-th response.
C1_TranscriptAfterSuccesses ==
    (AllAnswered /\ AllSucceeded) =>
        /\ Len(messages) = 1 + 2 * Len(calls)
        /\ messages[1] = SeedMessage
        /\ \A k \in 1..Len(calls) :
            /\ messages[2 * k].type = "user"
            /\ messages[2 * k].content = calls[k].formData[1].value
            /\ messages[2 * k + 1].type = "agent"
            /\ messages[2 * k + 1].content = calls[k].response.body.data.response
            /\ messages[2 * k + 1].image = calls[k].response.body.data.image

C1_Witness ==
    /\ Len(calls) = 2
    /\ AllAnswered
    /\ AllSucceeded
    /\ calls[1].response # calls[2].response

\* C2: when a chat request fails (fetch rejects, the status is not a
\* success status, or the body cannot be read as a JSON object), the
\* handler appends exactly one message, an agent message whose text is the
\* fixed fallback notice, and its promise resolves.
C2_FailureAppendsFallback ==
    [][\A k \in 1..Len(calls) :
        (CompletedStep(k) /\ ~ChatSucceeded(calls'[k].response)) =>
            /\ Len(messages') = Len(messages) + 1
            /\ SubSeq(messages', 1, Len(messages)) = messages
            /\ Last(messages').type = "agent"
            /\ Last(messages').content = FallbackText
            /\ calls'[k].state = "resolved"]_vars

C2_Witness ==
    /\ Len(calls) = 2
    /\ AllAnswered
    /\ calls[1].response = FetchRejected
    /\ calls[2].response = Fulfilled(TRUE, Garbage)
    /\ Last(messages).content = FallbackText

\* C3: the transcript is never empty, its first element is the seed
\* message, and every step leaves it unchanged or appends exactly one
\* message at its end.
C3_TranscriptAppendOnly ==
    /\ [](Len(messages) >= 1 /\ messages[1] = SeedMessage)
    /\ [][\/ messages' = messages
          \/ /\ Len(messages') = Len(messages) + 1
             /\ SubSeq(messages', 1, Len(messages)) = messages]_vars

C3_Witness == Len(messages) = 1 + 2 * MaxSubmits

\* C4: at most one chat request is outstanding, isLoading is true exactly
\* when one is, and the agent message of a submission directly follows its
\* user message: while the request is outstanding the user message is the
\* last of the transcript.
C4_OneRequestInFlight ==
    /\ Cardinality(Awaiting) <= 1
    /\ isLoading <=> Awaiting # {}
    /\ \A k \in 1..Len(calls) :
        IF k \in Awaiting
        THEN calls[k].userAt = Len(messages)
        ELSE calls[k].agentAt = calls[k].userAt + 1

C4_Witness ==
    /\ Len(calls) = 2
    /\ 2 \in Awaiting
    /\ Truthy(selectedFile)
    /\ isLoading

\* C5 as stated: handleSendMessage accepts exactly when the input text is
\* not the empty string or a file is attached, and a rejected call changes
\* nothing.
C5_AcceptedIffNonEmpty ==
    [][lastEvent' \in {"submitAccepted", "submitRejected"} =>
        /\ (lastEvent' = "submitAccepted") <=>
                (inputValue # <<>> \/ selectedFile # Null)
        /\ lastEvent' = "submitRejected" => UNCHANGED chatVars]_vars

\* C5, amended: handleSendMessage accepts exactly when the trimmed input
\* text is not empty or a file is attached; a rejected call appends no
\* message, issues no request and leaves transcript, input, file and
\* isLoading unchanged.
C5_AcceptedIffNonBlank ==
    [][lastEvent' \in {"submitAccepted", "submitRejected"} =>
        /\ (lastEvent' = "submitAccepted") <=>
                (Trim(inputValue) # <<>> \/ selectedFile # Null)
        /\ (lastEvent' = "submitAccepted") <=> AcceptedStep
        /\ lastEvent' = "submitRejected" => UNCHANGED chatVars]_vars

C5_Witness ==
    /\ lastEvent = "submitRejected"
    /\ inputValue = <<" ">>
    /\ selectedFile = Null

\* C6: right after an accepted submit the last message is a user message
\* holding exactly the submitted text and the name of the attached file (or
\* null), the input is empty, no file is attached and isLoading is true.
C6_OptimisticAppend ==
    [][AcceptedStep =>
        /\ Len(messages') = Len(messages) + 1
        /\ Last(messages').type = "user"
        /\ Last(messages').content = Str(inputValue)
        /\ Last(messages').fileName =
              (IF selectedFile = Null THEN Null ELSE selectedFile.name)
        /\ inputValue' = <<>>
        /\ selectedFile' = Null
        /\ isLoading']_vars

C6_Witness ==
    /\ lastEvent = "submitAccepted"
    /\ Last(messages).type = "user"
    /\ Last(messages).content = Str(<<" ">>)
    /\ Last(messages).fileName = Str(<<"b.xlsx">>)

\* C7: the number of chat requests issued equals the number of user
\* messages; requests are issued only by an accepted submit, one each,
\* never by a completion; the request carries the submitted text and,
\* exactly when a file was attached at the submit, that file.
C7_OneRequestPerSubmit ==
    /\ [](Len(calls) = UserCount)
    /\ [][/\ Len(calls') # Len(calls) =>
                /\ AcceptedStep
                /\ lastEvent' = "submitAccepted"
                /\ SubSeq(calls', 1, Len(calls)) = calls
                /\ Last(calls').formData =
                      <<[key |-> "message", value |-> Str(inputValue)]>>
                      \o (IF selectedFile = Null THEN <<>>
                          ELSE <<[key |-> "file", value |-> selectedFile]>>)
          /\ lastEvent' = "complete" => Len(calls') = Len(calls)]_vars

C7_Witness ==
    /\ Len(calls) = 2
    /\ AllAnswered
    /\ ~ChatSucceeded(calls[1].response)
    /\ Len(calls[1].formData) = 2
    /\ Len(calls[2].formData) = 1
    /\ selectedFile = Null

\* C8: a completion, success or failure, leaves isLoading false and the
\* file control reset; and with every request completing in the end, an
\* accepted submit leads to a state with isLoading false and one more
\* agent message than before it.
C8_CompletionClearsInFlight ==
    /\ [][\A k \in 1..Len(calls) : CompletedStep(k) =>
            (~isLoading' /\ fileInput' = Null)]_vars
    /\ \A n \in 1..(MaxSubmits + 1) :
          (isLoading /\ AgentCount = n) ~> (~isLoading /\ AgentCount = n + 1)

C8_Witness ==
    /\ lastEvent = "complete"
    /\ ~isLoading
    /\ AgentCount = 3
    /\ ~ChatSucceeded(calls[2].response)

\* C9: every message has an id strictly greater than the id of every
\* message before it in the transcript.
C9_IdsIncreasing ==
    \A i, j \in 1..Len(messages) : i < j => messages[i].id < messages[j].id

\* The weaker reading, that no two messages share an id, fails as well.
C9_IdsDistinct ==
    \A i, j \in 1..Len(messages) : i # j => messages[i].id # messages[j].id

(***************************************************************************)
(* Document Generation Widget: properties                                  *)
(***************************************************************************)
\* A step in which panel call k completed
PanelCompletedStep(k) == k \in PanelAwaiting /\ panelCalls'[k].state # "awaiting"

\* The response of a call carried a body with success
SuccessResponse(resp) ==
    /\ resp.fetch = "fulfilled"
    /\ resp.body.t = "json"
    /\ resp.body.data.t = "object"
    /\ Truthy(resp.body.data.success)

\* C10: the requirements payload is present exactly when the document
\* text is present, and every generate-requirements response with success
\* leaves both present and equal to the returned values.
C10_RequirementsIffDocument ==
    /\ [](Truthy(requirements) <=> Truthy(documentContent))
    /\ [][\A k \in 1..Len(panelCalls) :
            (/\ PanelCompletedStep(k)
             /\ panelCalls[k].endpoint = "generate-requirements"
             /\ SuccessResponse(lastResponse')) =>
                /\ Truthy(requirements') /\ Truthy(documentContent')
                /\ requirements' = lastResponse'.body.data.requirements
                /\ documentContent' = lastResponse'.body.data.document]_vars

\* The text is empty or consists of white space only
Blank(text) == \A i \in 1..Len(text) : text[i] = " "

\* The slot of an artifact kind, and the artifact set with one slot replaced
Slot(a, kind) ==
    CASE kind = "use_cases" -> a.useCases
      [] kind = "user_stories" -> a.userStories
      [] kind = "process_diagram" -> a.processDiagram
Put(a, kind, v) ==
    [useCases |-> IF kind = "use_cases" THEN v ELSE a.useCases,
     userStories |-> IF kind = "user_stories" THEN v ELSE a.userStories,
     processDiagram |-> IF kind = "process_diagram" THEN v ELSE a.processDiagram]

\* The artifact a success body carries for a kind
Returned(kind, data) ==
    IF kind = "process_diagram" THEN data.diagram ELSE data.artifacts

\* The calls of an endpoint, and the artifact calls of a kind
CallsOf(endpoint) ==
    {k \in 1..Len(panelCalls) : panelCalls[k].endpoint = endpoint}
ArtifactCalls(kind) ==
    {k \in CallsOf("generate-artifacts") : panelCalls[k].body.artifact_type = kind}

\* A step in which a request went out
IssuedStep == Len(panelCalls') = Len(panelCalls) + 1

\* The notice a failed request must leave: the error text of the body when
\* it has one, the generic text of the action otherwise, the connectivity
\* text when there is no body to read
ExpectedNotice(resp, generic) ==
    IF resp.fetch = "fulfilled" /\ resp.body.t = "json"
    THEN IF Truthy(resp.body.data.error) THEN resp.body.data.error ELSE generic
    ELSE ErrConnection

\* C11: generateRequirements with an empty or white-space-only project
\* name, and only then, returns at once: it issues no request, sets the
\* "enter project name" notice, and leaves isGenerating, requirements,
\* document and artifacts as they were.
C11_BlankNameRejected ==
    [][lastEvent' \in {"generateRejected", "generateIssued"} =>
        /\ (lastEvent' = "generateRejected") <=> Blank(projectName)
        /\ lastEvent' = "generateRejected" =>
              /\ error' = ErrEnterProjectName
              /\ UNCHANGED <<panelCalls, isGenerating, requirements,
                             documentContent, artifacts>>]_vars

C11_Witness ==
    /\ lastEvent = "generateRejected"
    /\ projectName = <<" ">>
    /\ error = ErrEnterProjectName
    /\ CallsOf("generate-requirements") = {}

\* C12: a generate-requirements request that fails (body without success,
\* or no readable body) leaves requirements and document absent and the
\* artifacts unchanged, isGenerating false, and a non-empty notice: the
\* error text of the body if it has one, a generic text otherwise.
C12_GenerateFailureStaysIdle ==
    [][(lastEvent' = "generateDone" /\ ~SuccessResponse(lastResponse')) =>
        /\ ~Truthy(requirements') /\ ~Truthy(documentContent')
        /\ UNCHANGED <<requirements, documentContent, artifacts>>
        /\ ~isGenerating'
        /\ Truthy(error')
        /\ error' = ExpectedNotice(lastResponse', ErrGenerate)]_vars

C12_Witness ==
    /\ lastEvent = "generateDone"
    /\ lastResponse \in {Fulfilled(TRUE, Json(d)) : d \in FailureData}
    /\ error = ErrGenerate
    /\ ~Truthy(requirements)
    /\ ~isGenerating

\* C13: for each kind, generateArtifact run while requirements is absent
\* issues no request, sets the "generate requirements first" notice and
\* leaves the artifacts and isGenerating as they were; a request goes out
\* only when requirements is present.
C13_ArtifactNeedsRequirements ==
    [][/\ \A kind \in ArtifactTypes :
            lastEvent' = RejectedArtifactEvent(kind) =>
                /\ ~Truthy(requirements)
                /\ error' = ErrNeedRequirements
                /\ UNCHANGED <<panelCalls, artifacts, isGenerating>>
       /\ lastEvent' = "artifactIssued" => Truthy(requirements)]_vars

C13_Witness ==
    /\ lastEvent = RejectedArtifactEvent("process_diagram")
    /\ error = ErrNeedRequirements
    /\ panelCalls = <<>>
    /\ projectName = <<"a">>

\* C14: an artifact request that succeeds stores the returned artifact in
\* the slot of its kind and leaves the other two slots, requirements and
\* document as they were, also when the slot was filled by an earlier
\* success of the same kind.
C14_SuccessStoresOneSlot ==
    [][(lastEvent' = "artifactDone" /\ SuccessResponse(lastResponse')) =>
        \E k \in PanelAwaiting :
            /\ panelCalls'[k].state = "succeeded"
            /\ artifacts' = Put(artifacts, panelCalls[k].body.artifact_type,
                                Returned(panelCalls[k].body.artifact_type,
                                         lastResponse'.body.data))
            /\ UNCHANGED <<requirements, documentContent>>]_vars

C14_Witness ==
    /\ Len(panelCalls) = 3
    /\ lastEvent = "artifactDone"
    /\ panelCalls[2].endpoint = "generate-artifacts"
    /\ panelCalls[2].state = "succeeded"
    /\ panelCalls[3] = panelCalls[2]
    /\ Truthy(artifacts.processDiagram)
    /\ artifacts.useCases = Null

\* C15: an artifact request that fails leaves the three slots unchanged,
\* sets a non-empty notice and isGenerating false, and leaves the button of
\* its kind enabled: requirements present, the slot empty, nothing in
\* flight.
C15_ArtifactFailureRetryable ==
    [][(lastEvent' = "artifactDone" /\ ~SuccessResponse(lastResponse')) =>
        /\ artifacts' = artifacts
        /\ Truthy(error')
        /\ error' = ExpectedNotice(lastResponse', ErrArtifact)
        /\ ~isGenerating'
        /\ \E k \in PanelAwaiting :
            /\ panelCalls'[k].state = "failed"
            /\ Truthy(requirements')
            /\ ~Truthy(Slot(artifacts', panelCalls[k].body.artifact_type))
            /\ PanelAwaiting \ {k} = {}]_vars

C15_Witness ==
    /\ Len(panelCalls) = 3
    /\ panelCalls[2].endpoint = "generate-artifacts"
    /\ panelCalls[2].state = "failed"
    /\ panelCalls[3].endpoint = "generate-artifacts"
    /\ panelCalls[3].body = panelCalls[2].body
    /\ panelCalls[3].state = "awaiting"

\* C16: once an artifact request of a kind has succeeded, no further
\* request of that kind is issued through the panel and the slot never
\* changes, whatever value the success carried.
C16_SucceededKindIsCached ==
    [][\A kind \in ArtifactTypes :
        (\E k \in ArtifactCalls(kind) : panelCalls[k].state = "succeeded") =>
            /\ Slot(artifacts', kind) = Slot(artifacts, kind)
            /\ ~(IssuedStep /\ Len(panelCalls') \in ArtifactCalls(kind)')]_vars

\* C17: no artifact request, no publish request and no download happens
\* before a generate-requirements request has succeeded, and a download or
\* a publish request happens only with requirements and document present.
C17_GenerateIsTheGate ==
    /\ []((\/ downloads # <<>>
           \/ CallsOf("generate-artifacts") # {}
           \/ CallsOf("publish-to-confluence") # {}) =>
              \E j \in CallsOf("generate-requirements") :
                  /\ panelCalls[j].state = "succeeded"
                  /\ \A k \in CallsOf("generate-artifacts")
                            \cup CallsOf("publish-to-confluence") : j < k)
    /\ [][lastEvent' \in {"downloaded", "publishIssued"} =>
            (Truthy(requirements) /\ Truthy(documentContent))]_vars

C17_Witness ==
    /\ downloads # <<>>
    /\ CallsOf("generate-artifacts") # {}
    /\ CallsOf("publish-to-confluence") # {}

\* C18: publishToConfluence run while the document is absent, and only
\* then, returns at once: no request, the "generate the document first"
\* notice, and isGenerating, requirements, document and artifacts as they
\* were.
C18_PublishNeedsDocument ==
    [][lastEvent' \in {"publishRejected", "publishIssued"} =>
        /\ (lastEvent' = "publishRejected") <=> ~Truthy(documentContent)
        /\ lastEvent' = "publishRejected" =>
              /\ error' = ErrNeedDocument
              /\ UNCHANGED <<projectName, isGenerating, requirements,
                             documentContent, activeTab, artifacts,
                             panelCalls, lastResponse, downloads>>]_vars

C18_Witness ==
    /\ lastEvent = "publishRejected"
    /\ error = ErrNeedDocument
    /\ documentContent = Null
    /\ panelCalls = <<>>

\* C19: downloadDocument with the document absent produces no file and
\* changes nothing; with the document present it produces exactly one
\* file holding the document, issues no request and changes no state of
\* the panel, also while a request is in flight.
C19_DownloadIsLocal ==
    [][lastEvent' \in {"downloadNothing", "downloaded"} =>
        /\ (lastEvent' = "downloaded") <=> Truthy(documentContent)
        /\ lastEvent' = "downloadNothing" => UNCHANGED panelVars
        /\ lastEvent' = "downloaded" =>
              /\ Len(downloads') = Len(downloads) + 1
              /\ SubSeq(downloads', 1, Len(downloads)) = downloads
              /\ downloads'[Len(downloads')].content = documentContent
              /\ UNCHANGED <<projectName, isGenerating, requirements,
                             documentContent, error, activeTab, artifacts,
                             panelCalls, lastResponse>>]_vars

C19_Witness ==
    /\ lastEvent = "downloaded"
    /\ isGenerating
    /\ PanelAwaiting # {}
    /\ Len(downloads) = 1

\* C20: every accepted publishToConfluence issues exactly one publish
\* request, with the project name and the document text in its body;
\* publish requests come from nowhere else (no retry on completion); and a
\* publish completion leaves requirements, document and artifacts
\* unchanged.
C20_OneRequestPerPublish ==
    [][/\ lastEvent' = "publishIssued" =>
            panelCalls' = Append(panelCalls,
                [endpoint |-> "publish-to-confluence",
                 body |-> [project_name |-> Str(projectName),
                           document |-> documentContent],
                 state |-> "awaiting"])
       /\ CallsOf("publish-to-confluence")' # CallsOf("publish-to-confluence")
            => lastEvent' = "publishIssued"
       /\ lastEvent' = "publishDone" =>
            /\ Len(panelCalls') = Len(panelCalls)
            /\ UNCHANGED <<requirements, documentContent, artifacts>>]_vars

C20_Witness ==
    /\ Len(panelCalls) = 3
    /\ CallsOf("publish-to-confluence") = {2, 3}
    /\ panelCalls[2].state = "failed"
    /\ panelCalls[3].state = "succeeded"
    /\ panelCalls[2].body = panelCalls[3].body

\* A completion of a request that could not complete: fetch() rejected
TransportFailure(resp) == resp.fetch = "rejected"
PanelDoneEvents == {"generateDone", "artifactDone", "publishDone"}

\* C21: for each of the three network actions, a transport failure sets
\* the notice to the one fixed connectivity text, whatever the underlying
\* error.
C21_TransportNoticeFixed ==
    [][(lastEvent' \in PanelDoneEvents /\ TransportFailure(lastResponse')) =>
          error' = ErrConnection]_vars

\* C21, amended: a transport failure of generateRequirements or
\* generateArtifact sets the notice to the one fixed connectivity text,
\* whatever the underlying error; a transport failure of
\* publishToConfluence sets it to the connectivity text followed by the
\* message of the underlying error.
C21_TransportNoticeByAction ==
    [][(lastEvent' \in PanelDoneEvents /\ TransportFailure(lastResponse')) =>
          /\ lastEvent' \in {"generateDone", "artifactDone"} =>
                error' = ErrConnection
          /\ lastEvent' = "publishDone" =>
                /\ error'.t = "string"
                /\ error'.v = <<"Oshibka podklyucheniya k serveru: ">>
                                 \o lastResponse'.message
                /\ error' # ErrConnection]_vars

C21_Witness ==
    /\ lastEvent = "publishDone"
    /\ lastResponse = FetchFailed(<<"Load failed">>)
    /\ error = Str(<<"Oshibka podklyucheniya k serveru: ", "Load failed">>)
    /\ ~isGenerating

\* C22: through the rendered panel at most one request is outstanding,
\* isGenerating is true exactly when one is, every completion sets
\* isGenerating false, and requirements, document and artifacts are written
\* only by the completion of the single outstanding call.
C22_OneRequestOutstanding ==
    /\ [](/\ Cardinality(PanelAwaiting) <= 1
          /\ isGenerating <=> PanelAwaiting # {})
    /\ [][/\ (\E k \in PanelAwaiting : PanelCompletedStep(k)) =>
                (~isGenerating' /\ PanelAwaiting' = {})
          /\ <<requirements, documentContent, artifacts>>'
                # <<requirements, documentContent, artifacts>> =>
                \E k \in PanelAwaiting :
                    PanelAwaiting = {k} /\ PanelCompletedStep(k)]_vars

C22_Witness ==
    /\ Len(panelCalls) = 3
    /\ panelCalls[1].state = "succeeded"
    /\ panelCalls[2].state = "failed"
    /\ PanelAwaiting = {3}
    /\ isGenerating

\* C23: when artifact requests of two different kinds are outstanding at
\* once and succeed, in either order, each completion writes the slot of
\* its own kind with its own artifact and leaves the other two slots as
\* they were; a slot holds an artifact returned for its kind if a request
\* of its kind succeeded and null otherwise.
C23_OverlappingKindsIndependent ==
    /\ [][\A k \in PanelAwaiting :
            (/\ k \in CallsOf("generate-artifacts")
             /\ panelCalls'[k].state = "succeeded"
             /\ \E j \in CallsOf("generate-artifacts") :
                  /\ panelCalls[j].body.artifact_type
                        # panelCalls[k].body.artifact_type
                  /\ panelCalls[j].state \in {"awaiting", "succeeded"}) =>
                artifacts' = Put(artifacts, panelCalls[k].body.artifact_type,
                                 Returned(panelCalls[k].body.artifact_type,
                                          lastResponse'.body.data))]_vars
    /\ [](\A kind \in ArtifactTypes :
            IF \E k \in ArtifactCalls(kind) : panelCalls[k].state = "succeeded"
            THEN Slot(artifacts, kind)
                    \in {Returned(kind, d) : d \in ArtifactData(kind)}
            ELSE Slot(artifacts, kind) = Null)

C23_Witness ==
    /\ Len(panelCalls) = 3
    /\ lastEvent = "artifactDone"
    /\ 2 \in ArtifactCalls("use_cases")
    /\ panelCalls[2].state = "awaiting"
    /\ 3 \in ArtifactCalls("process_diagram")
    /\ panelCalls[3].state = "succeeded"
    /\ artifacts.processDiagram = Str(<<"graph TD">>)
    /\ artifacts.useCases = Null
    /\ artifacts.userStories = Null

\* C24: through the rendered panel, once requirements and document are
\* both present neither ever changes, and an artifact slot that is
\* populated stays populated.
C24_ReadyIsAbsorbing ==
    [][/\ (Truthy(requirements) /\ Truthy(documentContent)) =>
             UNCHANGED <<requirements, documentContent>>
       /\ \A kind \in ArtifactTypes :
             Truthy(Slot(artifacts, kind)) => Truthy(Slot(artifacts', kind))]_vars

C24_Witness ==
    /\ Len(panelCalls) = 3
    /\ panelCalls[1].state = "succeeded"
    /\ Truthy(requirements) /\ Truthy(documentContent)
    /\ 2 \in ArtifactCalls("user_stories")
    /\ Truthy(artifacts.userStories)
    /\ 3 \in CallsOf("publish-to-confluence")
    /\ panelCalls[3].state = "failed"

\* C25: through the rendered panel, while isGenerating is true the notice
\* is empty: a request that starts clears the notice, and no handler
\* returns with a validation notice while a request is outstanding.
C25_NoNoticeWhileGenerating ==
    /\ [](isGenerating => error = Null)
    /\ [][/\ IssuedStep => error' = Null
          /\ lastEvent' \in {"generateRejected", "publishRejected"}
                            \cup {RejectedArtifactEvent(kind) :
                                     kind \in ArtifactTypes} =>
                ~isGenerating]_vars

C25_Witness ==
    /\ Len(panelCalls) = 2
    /\ panelCalls[1].state = "failed"
    /\ panelCalls[2].state = "awaiting"
    /\ isGenerating
    /\ error = Null

\* C26: through the rendered panel, whenever the document is present the
\* project name is not blank and is the name sent in a
\* generate-requirements request that succeeded; every file saved is
\* named after it, never "requirements", and every publish request
\* carries it.
C26_ProjectNameFixedInReady ==
    /\ Truthy(documentContent) =>
          /\ ~Blank(projectName)
          /\ \E j \in CallsOf("generate-requirements") :
                /\ panelCalls[j].state = "succeeded"
                /\ panelCalls[j].body.project_name = Str(projectName)
    /\ \A i \in 1..Len(downloads) :
          /\ downloads[i].name = Str(projectName \o <<".md">>)
          /\ downloads[i].name # Str(<<"requirements", ".md">>)
    /\ \A k \in CallsOf("publish-to-confluence") :
          panelCalls[k].body.project_name = Str(projectName)

C26_Witness ==
    /\ Len(panelCalls) = 3
    /\ panelCalls[1].state = "failed"
    /\ panelCalls[1].body.project_name = Str(<<"a">>)
    /\ panelCalls[2].state = "succeeded"
    /\ panelCalls[2].body.project_name = Str(<<"b">>)
    /\ 3 \in CallsOf("publish-to-confluence")
    /\ downloads # <<>>
    /\ projectName = <<"b">>

\* The file a request's formData carries, null when it carries none
FormDataFile(formData) ==
    IF \E i \in 1..Len(formData) : formData[i].key = "file"
    THEN (CHOOSE e \in {formData[i] : i \in 1..Len(formData)} :
              e.key = "file").value
    ELSE Null

\* C27: the completion of a chat request resets the file control and
\* leaves the pending file as it is, so a file picked while the request
\* was in flight is still pending afterwards; and an accepted submit
\* carries the pending file.
C27_FilePickedInFlightSurvives ==
    [][/\ (\E k \in Awaiting : CompletedStep(k)) =>
             (selectedFile' = selectedFile /\ fileInput' = Null)
       /\ AcceptedStep =>
             FormDataFile(Last(calls').formData) = selectedFile]_vars

C27_Witness ==
    /\ Len(calls) = 2
    /\ calls[1].state # "awaiting"
    /\ lastEvent = "submitAccepted"
    /\ Truthy(FormDataFile(calls[2].formData))
    /\ fileInput = Null
====
